---- MODULE Spec2Model ----
(***************************************************************************)
(* Model of the `signatures` command of ion-cli                            *)
(* (src/src/bin/ion/commands/signatures.rs): the recursive collector       *)
(* collect_signatures / collect_sequence_signatures, the hash-consing      *)
(* SignatureRegistry, the inlining pass and the final report of run().     *)
(*                                                                         *)
(* The lazy Ion reader is the environment: at each step it yields a        *)
(* scalar, the start of a container, the end of the container being        *)
(* iterated, the end of the stream, or a read error.  The recursion of     *)
(* collect_signatures is the variable `stack`, one frame per container     *)
(* whose children are being reduced.                                       *)
(***************************************************************************)
EXTENDS Integers, Sequences, FiniteSets, TLC

\* ------------------------------------------------------------- bounds
\* Containers, and values inside containers, read in one run (top-level
\* scalars are not bounded: they change nothing).
MaxValues == 6
\* Containers read in one run.
MaxContainers == 3
\* Nesting depth of containers.
MaxDepth == 3
\* Children of one container.
MaxWidth == 2
\* Largest --min-signature-size tried (the smallest is 0).
MaxMinSize == 2

\* The scalar kinds the reader yields here (two of the ten of TypeSignature).
ScalarKinds == {"Int", "String"}
\* Field names, listed in the order String::cmp gives them.
FieldNames == <<"a", "b">>
ContainerKinds == {"Struct", "List", "SExp"}

VARIABLES
    min_size,            \* run: the --min-signature-size argument
    signature_registry,  \* run: [id_to_signature, signature_to_id, next_id]
    stack,               \* the active calls of collect_signatures on containers
    pc,                  \* where run() is
    single_parent_ids,   \* inline_single_parent_signatures: the Vec of candidate ids
    output,              \* the lines printed, in order
    result,              \* what run() returned: "none" (running), "Ok", "Err"
    nread,               \* history: containers and nested values read so far
    ncontainers,         \* history: containers read so far
    occ,                 \* history: expanded shape -> container occurrences read
    log,                 \* history: one record per container reduced
    pre,                 \* history: id_to_signature when the inlining pass began
    inline_called,       \* history: inline_single_parent_signatures was called
    error_depth          \* history: containers open when a read failed

vars == <<min_size, signature_registry, stack, pc, single_parent_ids, output,
          result, nread, ncontainers, occ, log, pre, inline_called, error_depth>>

\* ------------------------------------------------------- data model
Scalar(k) == [tag |-> k]
Container(id) == [tag |-> "Container", id |-> id]
Verbatim(sig) == [tag |-> "Verbatim", sig |-> sig]

\* Struct(Vec<(String, TypeSignature)>): items are [name, typ] records;
\* List / SExp (Vec<TypeSignature>): items are TypeSignatures.
ContainerSignature(kind, items) == [kind |-> kind, items |-> items]

\* The TypeSignature held at position i of a container signature.
TypeAt(sig, i) == IF sig.kind = "Struct" THEN sig.items[i].typ ELSE sig.items[i]

SignatureRegistryEntry(signature, top_level) ==
    [signature |-> signature, count |-> 1, parent_count |-> 0,
     appears_top_level |-> top_level]

New == [id_to_signature |-> <<>>, signature_to_id |-> <<>>, next_id |-> 0]

\* ------------------------------------------------------------- size
RECURSIVE size(_, _)
RECURSIVE container_size(_, _)
RECURSIVE SumSizes(_, _, _)

SumSizes(sig, registry, i) ==
    IF i = 0 THEN 0
    ELSE container_size(TypeAt(sig, i), registry) + SumSizes(sig, registry, i - 1)

\* Mutant: only the direct children are counted.
size_DirectOnly(sig, registry) == Len(sig.items)

size(sig, registry) == Len(sig.items) + SumSizes(sig, registry, Len(sig.items))

\* Mutant: a reference to a registered container counts as a scalar.
container_size_NoLookup(typ, registry) ==
    IF typ.tag = "Verbatim" THEN size(typ.sig, registry) ELSE 0

container_size(typ, registry) ==
    CASE typ.tag = "Container" ->
             size(registry.id_to_signature[typ.id].signature, registry)
      [] typ.tag = "Verbatim" -> size(typ.sig, registry)
      [] OTHER -> 0

\* ----------------------------------------------------- the registry
\* Mutant: the lookup in signature_to_id always misses.
get_or_create_id_AlwaysNew(registry, signature, top_level) ==
    LET id == registry.next_id
    IN  [registry |->
            [id_to_signature |-> registry.id_to_signature
                 @@ (id :> SignatureRegistryEntry(signature, top_level)),
             signature_to_id |-> (signature :> id) @@ registry.signature_to_id,
             next_id |-> registry.next_id + 1],
         existing |-> FALSE,
         id |-> id]

\* Mutant: a hit leaves the count as it was.
get_or_create_id_NoCount(registry, signature, top_level) ==
    IF signature \in DOMAIN registry.signature_to_id
    THEN [registry |-> registry, existing |-> TRUE,
          id |-> registry.signature_to_id[signature]]
    ELSE get_or_create_id_AlwaysNew(registry, signature, top_level)

\* Mutant: a hit assigns top_level to appears_top_level in place of |=.
get_or_create_id_AssignTopLevel(registry, signature, top_level) ==
    IF signature \in DOMAIN registry.signature_to_id
    THEN LET id == registry.signature_to_id[signature]
             entry == registry.id_to_signature[id]
         IN  [registry |->
                 [registry EXCEPT !.id_to_signature[id] =
                     [entry EXCEPT !.count = entry.count + 1,
                                   !.appears_top_level = top_level]],
              existing |-> TRUE,
              id |-> id]
    ELSE get_or_create_id_AlwaysNew(registry, signature, top_level)

\* Mutant: a hit inserts a fresh entry over the old one.
get_or_create_id_FreshOnHit(registry, signature, top_level) ==
    IF signature \in DOMAIN registry.signature_to_id
    THEN LET id == registry.signature_to_id[signature]
         IN  [registry |->
                 [registry EXCEPT !.id_to_signature[id] =
                     SignatureRegistryEntry(signature, top_level)],
              existing |-> TRUE,
              id |-> id]
    ELSE get_or_create_id_AlwaysNew(registry, signature, top_level)

\* Mutant: a miss leaves next_id as it was, so the next miss takes the same id.
get_or_create_id_NoAdvance(registry, signature, top_level) ==
    IF signature \in DOMAIN registry.signature_to_id
    THEN get_or_create_id_NoCount(registry, signature, top_level)
    ELSE LET id == registry.next_id
         IN  [registry |->
                 [id_to_signature |->
                      (id :> SignatureRegistryEntry(signature, top_level))
                          @@ registry.id_to_signature,
                  signature_to_id |-> (signature :> id) @@ registry.signature_to_id,
                  next_id |-> registry.next_id],
              existing |-> FALSE,
              id |-> id]

\* Mutant: a miss adds nothing to signature_to_id.
get_or_create_id_NoIndex(registry, signature, top_level) ==
    IF signature \in DOMAIN registry.signature_to_id
    THEN get_or_create_id_NoCount(registry, signature, top_level)
    ELSE LET got == get_or_create_id_AlwaysNew(registry, signature, top_level)
         IN  [got EXCEPT !.registry.signature_to_id = registry.signature_to_id]

\* get_or_create_id: the registry after the call, whether the signature was
\* already present, and its id.
get_or_create_id(registry, signature, top_level) ==
    IF signature \in DOMAIN registry.signature_to_id
    THEN LET id == registry.signature_to_id[signature]
             entry == registry.id_to_signature[id]
         IN  [registry |->
                 [registry EXCEPT !.id_to_signature[id] =
                     [entry EXCEPT !.count = entry.count + 1,
                                   !.appears_top_level = entry.appears_top_level \/ top_level]],
              existing |-> TRUE,
              id |-> id]
    ELSE LET id == registry.next_id
         IN  [registry |->
                 [id_to_signature |-> registry.id_to_signature
                      @@ (id :> SignatureRegistryEntry(signature, top_level)),
                  signature_to_id |-> registry.signature_to_id @@ (signature :> id),
                  next_id |-> registry.next_id + 1],
              existing |-> FALSE,
              id |-> id]

\* The loop run when the parent signature is new: parent_count += 1 on the
\* entry of every child position that is a Container(child_id), positions
\* i, i-1, ..., 1 of sig.
RECURSIVE IncrementParentCounts(_, _, _)
IncrementParentCounts(its, sig, i) ==
    IF i = 0 THEN its
    ELSE LET typ == TypeAt(sig, i)
             rest == IncrementParentCounts(its, sig, i - 1)
         IN  IF typ.tag = "Container"
             THEN [rest EXCEPT ![typ.id].parent_count = @ + 1]
             ELSE rest

\* fields.sort_by(|a, b| a.0.cmp(&b.0)): a stable sort on the name alone.
NameOrd(name) == CHOOSE i \in 1..Len(FieldNames) : FieldNames[i] = name

RECURSIVE InsertField(_, _)
InsertField(sorted, f) ==
    IF sorted = <<>> THEN <<f>>
    ELSE IF NameOrd(sorted[Len(sorted)].name) <= NameOrd(f.name)
         THEN Append(sorted, f)
         ELSE Append(InsertField(SubSeq(sorted, 1, Len(sorted) - 1), f),
                     sorted[Len(sorted)])

RECURSIVE SortFields(_)
SortFields(fields) ==
    IF fields = <<>> THEN <<>>
    ELSE InsertField(SortFields(SubSeq(fields, 1, Len(fields) - 1)),
                     fields[Len(fields)])

\* Mutant: a sexp is given the List constructor.
CanonicalSignature_SExpAsList(kind, children) ==
    ContainerSignature(IF kind = "SExp" THEN "List" ELSE kind,
                       IF kind = "Struct" THEN SortFields(children) ELSE children)

\* The canonical signature built from the children of a container, in the
\* order they were read.
CanonicalSignature(kind, children) ==
    ContainerSignature(kind, IF kind = "Struct" THEN SortFields(children) ELSE children)

\* Mutant: the threshold is tested with > in place of >=.
Reduce_StrictThreshold(registry, container_sig, minsz, top_level) ==
    IF size(container_sig, registry) > minsz
    THEN LET got == get_or_create_id(registry, container_sig, top_level)
         IN  [registry |->
                 IF got.existing THEN got.registry
                 ELSE [got.registry EXCEPT !.id_to_signature =
                          IncrementParentCounts(@, container_sig, Len(container_sig.items))],
              typ |-> Container(got.id)]
    ELSE [registry |-> registry, typ |-> Verbatim(container_sig)]

\* Mutant: a new signature leaves the parent counts of its children alone.
Reduce_NoParentCounts(registry, container_sig, minsz, top_level) ==
    IF size(container_sig, registry) >= minsz
    THEN LET got == get_or_create_id(registry, container_sig, top_level)
         IN  [registry |-> got.registry, typ |-> Container(got.id)]
    ELSE [registry |-> registry, typ |-> Verbatim(container_sig)]

\* The tail shared by the Struct branch of collect_signatures and by
\* collect_sequence_signatures: the size test, the registration, the parent
\* counts of a new signature, and the TypeSignature returned.
Reduce(registry, container_sig, minsz, top_level) ==
    IF size(container_sig, registry) >= minsz
    THEN LET got == get_or_create_id(registry, container_sig, top_level)
         IN  [registry |->
                 IF got.existing THEN got.registry
                 ELSE [got.registry EXCEPT !.id_to_signature =
                          IncrementParentCounts(@, container_sig, Len(container_sig.items))],
              typ |-> Container(got.id)]
    ELSE [registry |-> registry, typ |-> Verbatim(container_sig)]

\* replace_container_refs: the direct children of sig that are
\* Container(target_id) become Verbatim(replacement); nothing deeper is visited.
ReplaceType(typ, target_id, replacement) ==
    IF typ.tag = "Container" /\ typ.id = target_id THEN Verbatim(replacement) ELSE typ

\* Mutant: every Container child is replaced, whatever its id.
replace_container_refs_AnyId(sig, target_id, replacement) ==
    [sig EXCEPT !.items =
        [i \in 1..Len(sig.items) |->
            IF sig.kind = "Struct"
            THEN [sig.items[i] EXCEPT !.typ =
                     IF @.tag = "Container" THEN Verbatim(replacement) ELSE @]
            ELSE IF sig.items[i].tag = "Container"
                 THEN Verbatim(replacement) ELSE sig.items[i]]]

replace_container_refs(sig, target_id, replacement) ==
    [sig EXCEPT !.items =
        [i \in 1..Len(sig.items) |->
            IF sig.kind = "Struct"
            THEN [sig.items[i] EXCEPT !.typ = ReplaceType(@, target_id, replacement)]
            ELSE ReplaceType(sig.items[i], target_id, replacement)]]

\* Mutant: the filter forgets appears_top_level.
SingleParentIds_AnyLevel(its) ==
    {id \in DOMAIN its : its[id].parent_count = 1}

\* The filter of inline_single_parent_signatures.
SingleParentIds(its) ==
    {id \in DOMAIN its : its[id].parent_count = 1 /\ ~its[id].appears_top_level}

\* One iteration of `for id in single_parent_ids`: every entry is rewritten,
\* then the entry of id is removed from id_to_signature (signature_to_id is
\* not touched).
InlineOne(registry, id) ==
    LET its == registry.id_to_signature
        signature_to_inline == its[id].signature
        rewritten == [j \in DOMAIN its |->
                         [its[j] EXCEPT !.signature =
                             replace_container_refs(@, id, signature_to_inline)]]
    IN  [registry EXCEPT !.id_to_signature =
            [j \in DOMAIN its \ {id} |-> rewritten[j]]]

\* inline_single_parent_signatures, its Vec single_parent_ids being ids.
RECURSIVE InlineEach(_, _)
InlineEach(registry, ids) ==
    IF ids = <<>> THEN registry
    ELSE InlineEach(InlineOne(registry, Head(ids)), Tail(ids))

inline_single_parent_signatures(registry, ids) == InlineEach(registry, ids)

\* ---------------------------------------------------------- display
RECURSIVE Join(_, _)
Join(strs, sep) ==
    IF strs = <<>> THEN ""
    ELSE IF Len(strs) = 1 THEN strs[1]
    ELSE strs[1] \o sep \o Join(Tail(strs), sep)

ScalarName(tag) ==
    CASE tag = "Null" -> "null" [] tag = "Bool" -> "bool" [] tag = "Int" -> "int"
      [] tag = "Float" -> "float" [] tag = "Decimal" -> "decimal"
      [] tag = "Timestamp" -> "timestamp" [] tag = "String" -> "string"
      [] tag = "Symbol" -> "symbol" [] tag = "Blob" -> "blob" [] tag = "Clob" -> "clob"

RECURSIVE display(_)
RECURSIVE display_type(_)

display_type(typ) ==
    CASE typ.tag = "Container" -> "(#" \o ToString(typ.id) \o ")"
      [] typ.tag = "Verbatim" -> display(typ.sig)
      [] OTHER -> ScalarName(typ.tag)

display(sig) ==
    CASE sig.kind = "Struct" ->
             "{ " \o Join([i \in 1..Len(sig.items) |->
                              sig.items[i].name \o ": " \o display_type(sig.items[i].typ)],
                          ", ") \o " }"
      [] sig.kind = "List" ->
             "[ " \o Join([i \in 1..Len(sig.items) |-> display_type(sig.items[i])], ", ")
                  \o " ]"
      [] sig.kind = "SExp" ->
             "( " \o Join([i \in 1..Len(sig.items) |-> display_type(sig.items[i])], " ")
                  \o " )"

\* One printed line: "{count} values appear with signature #{id} {display}".
Line(id, entry) ==
    [count |-> entry.count, id |-> id, signature |-> display(entry.signature)]

\* sorted_entries.sort_by(|a, b| b.1.count.cmp(&a.1.count)): a stable sort of
\* the ids, given in the order the map iterates them, by descending count.
\* Mutant: the comparison is a.count.cmp(b.count), ascending.
RECURSIVE InsertEntry_Ascending(_, _, _)
InsertEntry_Ascending(sorted, id, its) ==
    IF sorted = <<>> THEN <<id>>
    ELSE IF its[sorted[Len(sorted)]].count <= its[id].count
         THEN Append(sorted, id)
         ELSE Append(InsertEntry_Ascending(SubSeq(sorted, 1, Len(sorted) - 1), id, its),
                     sorted[Len(sorted)])

RECURSIVE InsertEntry(_, _, _)
InsertEntry(sorted, id, its) ==
    IF sorted = <<>> THEN <<id>>
    ELSE IF its[sorted[Len(sorted)]].count >= its[id].count
         THEN Append(sorted, id)
         ELSE Append(InsertEntry(SubSeq(sorted, 1, Len(sorted) - 1), id, its),
                     sorted[Len(sorted)])

RECURSIVE SortEntries(_, _)
SortEntries(ids, its) ==
    IF ids = <<>> THEN <<>>
    ELSE InsertEntry(SortEntries(SubSeq(ids, 1, Len(ids) - 1), its), ids[Len(ids)], its)

Range(f) == {f[i] : i \in DOMAIN f}

\* The orders in which a HashMap may iterate the keys S.
Orders(S) ==
    {o \in [1..Cardinality(S) -> S] : \A i, j \in DOMAIN o : i # j => o[i] # o[j]}

\* ---------------------------------------------------- history helpers
\* The shape of a reduced position with every reference followed and every
\* container carried by value.
RECURSIVE Expand(_, _)
RECURSIVE ExpandType(_, _)

ExpandType(typ, its) ==
    CASE typ.tag = "Container" -> Verbatim(Expand(its[typ.id].signature, its))
      [] typ.tag = "Verbatim" -> Verbatim(Expand(typ.sig, its))
      [] OTHER -> typ

Expand(sig, its) ==
    [sig EXCEPT !.items =
        [i \in 1..Len(sig.items) |->
            IF sig.kind = "Struct"
            THEN [sig.items[i] EXCEPT !.typ = ExpandType(@, its)]
            ELSE ExpandType(sig.items[i], its)]]

\* Number of occurrences recorded for an expanded shape.
Occurrences(shape) == IF shape \in DOMAIN occ THEN occ[shape] ELSE 0

\* ------------------------------------------------------------ actions
Frame(kind, name, top_level) ==
    [kind |-> kind, name |-> name, top_level |-> top_level,
     children |-> <<>>, xchildren |-> <<>>]

\* elements.push(element_type) / fields.push((field_name, field_type)) in the
\* frame of the enclosing container.
PushChild(frame, name, typ, xtyp) ==
    [frame EXCEPT
        !.children = Append(@, IF frame.kind = "Struct"
                               THEN [name |-> name, typ |-> typ] ELSE typ),
        !.xchildren = Append(@, IF frame.kind = "Struct"
                                THEN [name |-> name, typ |-> xtyp] ELSE xtyp)]

\* The names the next child of the innermost container may carry.
ChildNames ==
    IF stack # <<>> /\ stack[Len(stack)].kind = "Struct"
    THEN {FieldNames[i] : i \in 1..Len(FieldNames)}
    ELSE {""}

\* The reader can yield one more value where collect_signatures now stands.
CanRead ==
    /\ pc = "collect"
    /\ stack # <<>> => /\ nread < MaxValues
                       /\ Len(stack[Len(stack)].children) < MaxWidth

Init ==
    /\ min_size \in 0..MaxMinSize
    /\ signature_registry = New
    /\ stack = <<>>
    /\ pc = "collect"
    /\ single_parent_ids = <<>>
    /\ output = <<>>
    /\ result = "none"
    /\ nread = 0
    /\ ncontainers = 0
    /\ occ = <<>>
    /\ log = {}
    /\ pre = <<>>
    /\ inline_called = FALSE
    /\ error_depth = 0

\* collect_signatures on a scalar: its tag is returned, the registry is not
\* consulted.  At top level the returned signature is dropped.
ReadScalar(k, name) ==
    /\ CanRead
    /\ nread' = IF stack = <<>> THEN nread ELSE nread + 1
    /\ stack' = IF stack = <<>> THEN stack
                ELSE [stack EXCEPT ![Len(stack)] = PushChild(@, name, Scalar(k), Scalar(k))]
    /\ UNCHANGED <<min_size, signature_registry, pc, single_parent_ids,
                   output, result, ncontainers, occ, log, pre, inline_called, error_depth>>

\* collect_signatures on a container: value.read() gives Struct, List or
\* SExp and the iteration over its children begins.
OpenContainer(kind, name) ==
    /\ CanRead
    /\ nread < MaxValues
    /\ Len(stack) < MaxDepth
    /\ ncontainers < MaxContainers
    /\ nread' = nread + 1
    /\ ncontainers' = ncontainers + 1
    /\ stack' = Append(stack, Frame(kind, name, stack = <<>>))
    /\ UNCHANGED <<min_size, signature_registry, pc, single_parent_ids,
                   output, result, occ, log, pre, inline_called, error_depth>>

\* The children of the innermost container are exhausted: its signature is
\* built, sized, registered or not, and returned to the enclosing call.
CloseContainer ==
    /\ pc = "collect"
    /\ stack # <<>>
    /\ LET frame == stack[Len(stack)]
           rest == SubSeq(stack, 1, Len(stack) - 1)
           container_sig == CanonicalSignature(frame.kind, frame.children)
           shape == CanonicalSignature(frame.kind, frame.xchildren)
           r == Reduce(signature_registry, container_sig, min_size, frame.top_level)
       IN  /\ signature_registry' = r.registry
           /\ stack' = IF rest = <<>> THEN rest
                       ELSE [rest EXCEPT ![Len(rest)] =
                                PushChild(@, frame.name, r.typ, Verbatim(shape))]
           /\ occ' = IF shape \in DOMAIN occ
                     THEN [occ EXCEPT ![shape] = @ + 1]
                     ELSE occ @@ (shape :> 1)
           /\ log' = log \cup
                  {[kind |-> frame.kind, src |-> frame.children, sig |-> container_sig,
                    shape |-> shape, size |-> size(container_sig, signature_registry),
                    top_level |-> frame.top_level, out |-> r.typ]}
    /\ UNCHANGED <<min_size, pc, single_parent_ids, output, result, nread,
                   ncontainers, pre, inline_called, error_depth>>

\* next_item() gives an item that is neither a value nor the end of the
\* stream (a version marker, a symbol table): `_ => continue`.
SkipSystemItem ==
    /\ pc = "collect"
    /\ stack = <<>>
    /\ UNCHANGED vars

\* EndOfStream on an input that is not the last: for_each_input opens the
\* next input with a new reader; the registry is carried over.
NextInput ==
    /\ pc = "collect"
    /\ stack = <<>>
    /\ UNCHANGED vars

\* CommandIo::for_each_input (crate::commands): what it returns when its
\* closure returns r for an input.  An error is returned at once, the inputs
\* after it unread.
for_each_input(r) == r

\* Mutant: the error is kept for the end; the lines of what was collected
\* are printed first.
ReadError_PrintsFirst ==
    /\ pc = "collect"
    /\ pc' = "failed"
    /\ result' = "Err"
    /\ stack' = <<>>
    /\ output' = [i \in 1..signature_registry.next_id |->
                     Line(i - 1, signature_registry.id_to_signature[i - 1])]
    /\ signature_registry' = New
    /\ occ' = <<>>
    /\ log' = {}
    /\ error_depth' = Len(stack)
    /\ UNCHANGED <<min_size, single_parent_ids, nread, ncontainers, pre, inline_called>>

\* Any read fails (next_item()?, value.read()?, field?, field.name()?,
\* element?): `?` returns the error from every active call and from run,
\* whose locals are dropped.
ReadError ==
    /\ pc = "collect"
    /\ pc' = "failed"
    /\ result' = for_each_input("Err")
    /\ stack' = <<>>
    /\ signature_registry' = New
    /\ occ' = <<>>
    /\ log' = {}
    /\ error_depth' = Len(stack)
    /\ UNCHANGED <<min_size, single_parent_ids, output, nread, ncontainers, pre,
                   inline_called>>

\* EndOfStream on the last input: for_each_input returns Ok, then the rest of
\* run: inline_single_parent_signatures (ids is its Vec single_parent_ids, in
\* the map's iteration order, which is arbitrary), the entries left collected
\* in the map's iteration order (order), sorted and printed; run returns Ok.
EndOfInputs(ids, order) ==
    /\ pc = "collect"
    /\ stack = <<>>
    /\ LET inlined == inline_single_parent_signatures(signature_registry, ids)
           its == inlined.id_to_signature
           sorted_entries == SortEntries(order, its)
       IN  /\ order \in Orders(DOMAIN its)
           /\ signature_registry' = inlined
           /\ output' = [i \in 1..Len(sorted_entries) |->
                            Line(sorted_entries[i], its[sorted_entries[i]])]
    /\ single_parent_ids' = ids
    /\ pre' = signature_registry.id_to_signature
    /\ inline_called' = TRUE
    /\ pc' = "done"
    /\ result' = "Ok"
    /\ UNCHANGED <<min_size, stack, nread, ncontainers, occ, log, error_depth>>

Next ==
    \/ \E k \in ScalarKinds, name \in ChildNames : ReadScalar(k, name)
    \/ \E kind \in ContainerKinds, name \in ChildNames : OpenContainer(kind, name)
    \/ CloseContainer
    \/ SkipSystemItem
    \/ NextInput
    \/ ReadError
    \/ \E ids \in Orders(SingleParentIds(signature_registry.id_to_signature)) :
           \E order \in Orders(DOMAIN signature_registry.id_to_signature \ Range(ids)) :
               EndOfInputs(ids, order)

Spec == Init /\ [][Next]_vars

\* ------------------------------------------------------------- claims
its == signature_registry.id_to_signature

\* C1: hash-consing uniqueness.  In every state of a run, during collection
\* and after inline_single_parent_signatures, no two ids of id_to_signature
\* hold equal signatures; and any two containers reduced with equal canonical
\* signatures of size >= min_size were returned the same Container(id).
C1_HashConsUnique ==
    /\ \A i, j \in DOMAIN its : i # j => its[i].signature # its[j].signature
    /\ \A x, y \in log :
          (x.sig = y.sig /\ x.size >= min_size)
              => (x.out.tag = "Container" /\ x.out = y.out)

\* A run whose inlining pass removed an entry and left two, one of them
\* rewritten.
C1_Witness ==
    /\ pc = "done"
    /\ Len(single_parent_ids) >= 1
    /\ Cardinality(DOMAIN its) >= 2
    /\ \E j \in DOMAIN its : its[j].signature # pre[j].signature

\* t holds the elements of s in some order.
IsPermutation(s, t) ==
    /\ Len(s) = Len(t)
    /\ \E p \in Orders(1..Len(s)) : \A i \in 1..Len(s) : t[i] = s[p[i]]

\* C2: field-order invariance.  Any two records reduced with the same
\* (field name, field type) pairs, in whatever source order and duplicate
\* names included, were given the same canonical Struct signature and the
\* same returned TypeSignature (the same id, or the same Verbatim).
C2_FieldOrderInvariance ==
    \A x, y \in log :
        (x.kind = "Struct" /\ y.kind = "Struct" /\ IsPermutation(x.src, y.src))
            => (x.sig = y.sig /\ x.out = y.out)

\* The registry as collection left it: the live one while collecting, the
\* one saved when the inlining pass began afterwards.
Collected == IF pc = "done" THEN pre ELSE its

\* C3: count accuracy.  The count of every entry is the number of containers
\* read so far, at any depth, whose shape is the entry's shape; every
\* registered container finds that number under the id it was returned; and
\* containers of different shapes were returned different ids.
C3_CountAccuracy ==
    /\ \A id \in DOMAIN Collected :
          Collected[id].count = Occurrences(Expand(Collected[id].signature, Collected))
    /\ \A x \in log :
          x.out.tag = "Container"
              => /\ x.out.id \in DOMAIN Collected
                 /\ Collected[x.out.id].count = Occurrences(x.shape)
    /\ \A x, y \in log :
          (x.out.tag = "Container" /\ y.out.tag = "Container" /\ x.shape # y.shape)
              => x.out # y.out

\* Two records with the same field names that differ in the type of one
\* field, one read twice and the other once.
C3_Witness ==
    /\ pc = "collect"
    /\ stack = <<>>
    /\ \E i, j \in DOMAIN its :
          /\ its[i].count = 2 /\ its[j].count = 1
          /\ its[i].signature.kind = "Struct" /\ its[j].signature.kind = "Struct"
          /\ Len(its[i].signature.items) = Len(its[j].signature.items)
          /\ Len(its[i].signature.items) >= 1
          /\ \A n \in 1..Len(its[i].signature.items) :
                its[i].signature.items[n].name = its[j].signature.items[n].name
          /\ \E n \in 1..Len(its[i].signature.items) :
                its[i].signature.items[n].typ # its[j].signature.items[n].typ

\* Container(id) occurs in sig, at any depth.
RECURSIVE Mentions(_, _)
Mentions(sig, id) ==
    \E i \in 1..Len(sig.items) :
        LET typ == TypeAt(sig, i)
        IN  \/ typ.tag = "Container" /\ typ.id = id
            \/ typ.tag = "Verbatim" /\ Mentions(typ.sig, id)

\* The entries the pass had to inline: parent_count == 1 and never at top level.
Candidates ==
    {id \in DOMAIN pre : pre[id].parent_count = 1 /\ ~pre[id].appears_top_level}

\* C4: inlining leaves no reference to a removed signature.  After the pass,
\* whatever the order the candidates were processed in, no remaining entry
\* holds Container(id), at any depth, for an id the pass removed.
C4_NoDanglingReference ==
    pc = "done" =>
        \A id \in DOMAIN pre \ DOMAIN its :
            \A j \in DOMAIN its : ~Mentions(its[j].signature, id)

\* C5: the pass removes exactly the candidates: the entries left are those
\* present when it began that had parent_count # 1 or were seen at top level.
C5_RemovesExactlyCandidates ==
    pc = "done" => DOMAIN its = DOMAIN pre \ Candidates

\* A pass that removed an entry and kept another.
C5_Witness ==
    /\ pc = "done"
    /\ Candidates # {}
    /\ DOMAIN pre \ Candidates # {}

\* fin is orig where Container(c) children naming a candidate c, at the depths
\* inlining opened, may have become Verbatim of c's signature, itself so changed.
RECURSIVE InlinedFrom(_, _)
InlinedFrom(fin, orig) ==
    /\ fin.kind = orig.kind
    /\ Len(fin.items) = Len(orig.items)
    /\ \A i \in 1..Len(orig.items) :
          LET f == TypeAt(fin, i)
              o == TypeAt(orig, i)
          IN  /\ orig.kind = "Struct" => fin.items[i].name = orig.items[i].name
              /\ IF o.tag = "Container" /\ o.id \in Candidates
                 THEN \/ f = o
                      \/ f.tag = "Verbatim" /\ InlinedFrom(f.sig, pre[o.id].signature)
                 ELSE f = o

\* fin is orig with exactly its direct Container(c) children naming a
\* candidate c replaced by Verbatim of c's signature.
SurvivorShape(fin, orig) ==
    /\ fin.kind = orig.kind
    /\ Len(fin.items) = Len(orig.items)
    /\ \A i \in 1..Len(orig.items) :
          LET f == TypeAt(fin, i)
              o == TypeAt(orig, i)
          IN  /\ orig.kind = "Struct" => fin.items[i].name = orig.items[i].name
              /\ IF o.tag = "Container" /\ o.id \in Candidates
                 THEN f.tag = "Verbatim" /\ InlinedFrom(f.sig, pre[o.id].signature)
                 ELSE f = o

\* C6: survivors of inlining.  An entry with parent_count >= 2, or
\* parent_count == 0, or seen at top level when the pass began is still there
\* under its id, with the same count, parent_count and appears_top_level; its
\* signature differs only in the direct Container children naming an inlined
\* id, which are now Verbatim, and is the same when it has no such child.
C6_Survivors ==
    pc = "done" =>
        \A j \in DOMAIN pre :
            (pre[j].parent_count >= 2 \/ pre[j].parent_count = 0 \/ pre[j].appears_top_level)
                => /\ j \in DOMAIN its
                   /\ its[j].count = pre[j].count
                   /\ its[j].parent_count = pre[j].parent_count
                   /\ its[j].appears_top_level = pre[j].appears_top_level
                   /\ SurvivorShape(its[j].signature, pre[j].signature)

\* A pass that rewrote one survivor and left another, with no inlined child,
\* as it was.
C6_Witness ==
    /\ pc = "done"
    /\ \E j \in DOMAIN its : its[j].signature # pre[j].signature
    /\ \E j \in DOMAIN its :
          /\ its[j].signature = pre[j].signature
          /\ pre[j].parent_count = 0

\* The container on top of the stack is being closed by this step.
Closing == pc = "collect" /\ pc' = "collect" /\ Len(stack') < Len(stack)

AllScalar(src) == \A i \in 1..Len(src) : src[i].typ.tag \in ScalarKinds

\* What every reduced container shows of the threshold.
C7_Reduced ==
    \A x \in log :
        /\ x.size < min_size => x.out = Verbatim(x.sig)
        /\ x.size >= min_size
              => /\ x.out.tag = "Container"
                 /\ x.out.id \in DOMAIN Collected
                 /\ Collected[x.out.id].signature = x.sig
        /\ (min_size = 2 /\ x.kind = "Struct" /\ AllScalar(x.src))
              => /\ Len(x.src) = 1 => x.out.tag = "Verbatim"
                 /\ Len(x.src) = 2 => x.out.tag = "Container"

\* What closing a container does to the registry.
C7_Step ==
    Closing =>
        LET frame == stack[Len(stack)]
            sig == CanonicalSignature(frame.kind, frame.children)
            sz == size(sig, signature_registry)
        IN  /\ sz < min_size => signature_registry' = signature_registry
            /\ sz >= min_size
                  => /\ sig \in DOMAIN signature_registry'.signature_to_id
                     /\ signature_registry'.id_to_signature[
                            signature_registry'.signature_to_id[sig]].signature = sig
                     /\ sig \notin DOMAIN signature_registry.signature_to_id
                            => signature_registry'.next_id = signature_registry.next_id + 1

\* C7: threshold boundary.  A container is registered if and only if the size
\* of its signature is >= min_size: below it Verbatim(signature) is returned
\* and the registry stays as the children left it; at or above it
\* Container(id) is returned and the signature has an entry.  With min_size = 2
\* a record of one scalar field is never registered and a record of two scalar
\* fields is, from its first occurrence.
C7_ThresholdBoundary == [](C7_Reduced) /\ [][C7_Step]_vars

\* With min_size = 2, a record of one scalar field returned Verbatim and a
\* record of two scalar fields returned a Container.
C7_Witness ==
    /\ min_size = 2
    /\ \E x, y \in log :
          /\ x.kind = "Struct" /\ AllScalar(x.src) /\ Len(x.src) = 1
          /\ x.out.tag = "Verbatim"
          /\ y.kind = "Struct" /\ AllScalar(y.src) /\ Len(y.src) = 2
          /\ y.out.tag = "Container"

\* C8: sequence order and kind.  Two lists, or two sexps, of size >= min_size
\* whose element types are the same in a different order have different ids,
\* and so have a list and a sexp with the same element types in the same order.
C8_SequenceOrderAndKind ==
    \A x, y \in log :
        (/\ x.kind # "Struct" /\ y.kind # "Struct"
         /\ x.size >= min_size /\ y.size >= min_size
         /\ \/ x.kind = y.kind /\ x.src # y.src /\ IsPermutation(x.src, y.src)
            \/ x.kind # y.kind /\ x.src = y.src)
            => /\ x.out.tag = "Container" /\ y.out.tag = "Container"
               /\ x.out.id # y.out.id

\* Two lists of two elements, the same types in the other order, both registered.
C8_Witness ==
    \E x, y \in log :
        /\ x.kind = "List" /\ y.kind = "List"
        /\ Len(x.src) = 2 /\ x.src[1] # x.src[2]
        /\ y.src = <<x.src[2], x.src[1]>>
        /\ x.out.tag = "Container" /\ y.out.tag = "Container"

\* C9: fail-fast.  When a read fails, wherever it is and whatever was
\* collected before, run returns the error, inline_single_parent_signatures
\* is not called and no line is printed, then or later.
C9_FailFast ==
    /\ [](result = "Err" => (pc = "failed" /\ ~inline_called /\ output = <<>>))
    /\ [](pc = "failed" => result = "Err")
    /\ [][pc = "failed" => UNCHANGED vars]_vars
    /\ [][(pc = "collect" /\ pc' = "failed") => (result' = "Err" /\ output' = <<>>)]_vars

\* A read failed two containers deep, after an entry had been registered.
C9_Witness ==
    /\ pc = "failed"
    /\ error_depth = 2
    /\ nread >= 4

\* C10: report.  After a successful run there is exactly one line per entry
\* left in id_to_signature by the inlining pass, carrying its count, and the
\* lines are in non-increasing order of count.
C10_ReportOrder ==
    pc = "done" =>
        /\ Len(output) = Cardinality(DOMAIN its)
        /\ {output[i].id : i \in 1..Len(output)} = DOMAIN its
        /\ \A i \in 1..Len(output) :
              /\ output[i].count = its[output[i].id].count
              /\ output[i].signature = display(its[output[i].id].signature)
        /\ \A i, j \in 1..Len(output) : i < j => output[i].count >= output[j].count

\* Two lines with different counts, the entry registered later printed first.
C10_Witness ==
    /\ pc = "done"
    /\ Len(output) = 2
    /\ output[1].count > output[2].count
    /\ output[1].id > output[2].id

\* The registry as it was when the inlining pass began.
PreRegistry == [signature_registry EXCEPT !.id_to_signature = pre]

\* C11: order independence of inlining.  The entries left by the pass, and
\* their signatures, are those every other processing order of the same
\* candidate ids would have left.
C11_OrderIndependence ==
    pc = "done" =>
        \A ids \in Orders(Candidates) :
            inline_single_parent_signatures(PreRegistry, ids).id_to_signature = its

\* The ids whose signature has Container(id) as a direct child.
ParentsOf(id, entries) ==
    {p \in DOMAIN entries :
        \E i \in 1..Len(entries[p].signature.items) :
            TypeAt(entries[p].signature, i) = Container(id)}

\* C12: meaning of parent_count.  Once collection has reduced a container,
\* the parent_count of every entry is the number of distinct registered
\* signatures that have Container(id) as a direct child, a parent naming the
\* same child at several positions counting once.
C12_DistinctParentCount ==
    \A id \in DOMAIN Collected :
        Collected[id].parent_count = Cardinality(ParentsOf(id, Collected))

\* C13: inlining deletes from both maps.  After the pass no inlined id is a
\* key of id_to_signature and every id in the range of signature_to_id names
\* an entry.
C13_BothMapsDeleted ==
    pc = "done" =>
        /\ \A id \in Candidates : id \notin DOMAIN its
        /\ \A sig \in DOMAIN signature_registry.signature_to_id :
              signature_registry.signature_to_id[sig] \in DOMAIN its

\* What the registry and the history show of appears_top_level.
C14_Accurate ==
    \A id \in DOMAIN Collected :
        Collected[id].appears_top_level
            <=> \E x \in log :
                   x.top_level /\ x.shape = Expand(Collected[id].signature, Collected)

\* What a step may do to appears_top_level.
C14_Step ==
    /\ pc' # "failed"
          => \A id \in DOMAIN its \cap DOMAIN its' :
                its[id].appears_top_level => its'[id].appears_top_level
    /\ (Closing /\ ~stack[Len(stack)].top_level)
          => \A id \in DOMAIN its' :
                IF id \in DOMAIN its
                THEN its'[id].appears_top_level = its[id].appears_top_level
                ELSE ~its'[id].appears_top_level

\* C14: accuracy of appears_top_level.  An entry's appears_top_level is true
\* if and only if some occurrence of its shape was reduced as a whole
\* top-level value; once true it stays true, and reducing a nested
\* occurrence never sets it.
C14_SeenAtTopLevel == [](C14_Accurate) /\ [][C14_Step]_vars

\* An entry seen at top level whose signature was also returned for a nested
\* occurrence.
C14_Witness ==
    /\ pc = "collect"
    /\ \E id \in DOMAIN its :
          /\ its[id].appears_top_level
          /\ \E x, y \in log :
                /\ x.out = Container(id) /\ x.top_level
                /\ y.out = Container(id) /\ ~y.top_level

\* What a step of collection may do to the registry.
C15_CollectStep ==
    (pc = "collect" /\ pc' = "collect")
        => /\ DOMAIN its \subseteq DOMAIN its'
           /\ \A id \in DOMAIN its :
                 /\ its'[id].signature = its[id].signature
                 /\ its'[id].count >= its[id].count
                 /\ its'[id].parent_count >= its[id].parent_count
           /\ \A id \in DOMAIN its' \ DOMAIN its :
                 /\ id = signature_registry.next_id
                 /\ \A old \in DOMAIN its : old < id
                 /\ \A sig \in DOMAIN signature_registry.signature_to_id :
                       signature_registry.signature_to_id[sig] < id
           /\ signature_registry'.next_id >= signature_registry.next_id

\* Entries go only in the step that runs the inlining pass, which hands out
\* no id and adds no entry.
C15_PassStep ==
    /\ (pc' # "failed" /\ ~(DOMAIN its \subseteq DOMAIN its'))
          => (pc = "collect" /\ pc' = "done")
    /\ (pc = "collect" /\ pc' = "done")
          => /\ signature_registry'.next_id = signature_registry.next_id
             /\ DOMAIN its' \subseteq DOMAIN its
    /\ pc = "done" => UNCHANGED vars

\* C15: monotonic collection.  While collecting, no entry is removed and no
\* id is given another signature; a new id is the previous next_id and is
\* greater than every id in use; next_id, count and parent_count never
\* decrease.  Entries are removed only by the one inlining pass, which
\* allocates no id.
C15_Monotonic == [][C15_CollectStep /\ C15_PassStep]_vars

\* A pass that removed an entry after collection had allocated three ids, one
\* of them for a container that has a parent.
C15_Witness ==
    /\ pc = "done"
    /\ signature_registry.next_id = 3
    /\ DOMAIN its # DOMAIN pre
    /\ \E id \in DOMAIN pre : pre[id].parent_count >= 1

\* The number of fields and elements at all depths of a container value,
\* counted on its shape as read from the input.
RECURSIVE Positions(_)
RECURSIVE PositionsUpTo(_, _)

PositionsUpTo(shape, i) ==
    IF i = 0 THEN 0
    ELSE LET typ == TypeAt(shape, i)
         IN  1 + (IF typ.tag = "Verbatim" THEN Positions(typ.sig) ELSE 0)
               + PositionsUpTo(shape, i - 1)

Positions(shape) == PositionsUpTo(shape, Len(shape.items))

\* C16: size is representation-independent.  For every container reduced
\* during collection, the size computed on its signature with children held
\* as Container(id) references looked up in the registry equals the size of
\* the same shape with every child expanded inline, which is the total number
\* of descendant positions of the container value; the same holds for every
\* entry of the registry while collecting.
C16_SizeRepresentationIndependent ==
    /\ \A x \in log :
          /\ x.size = size(x.shape, New)
          /\ x.size = Positions(x.shape)
    /\ pc = "collect" =>
          \A id \in DOMAIN its :
              size(its[id].signature, signature_registry)
                  = size(Expand(its[id].signature, its), New)

\* A reduced container of size 3 or more with one child held as a reference
\* to a non-empty entry and another held inline.
C16_Witness ==
    /\ pc = "collect"
    /\ \E x \in log :
          /\ x.size >= 3
          /\ \E i, j \in 1..Len(x.sig.items) :
                /\ TypeAt(x.sig, i).tag = "Container"
                /\ TypeAt(x.sig, i).id \in DOMAIN its
                /\ its[TypeAt(x.sig, i).id].signature.items # <<>>
                /\ TypeAt(x.sig, j).tag = "Verbatim"

\* The ids of the Container references in sig, at any depth below Verbatim
\* wrappers.
RECURSIVE RefsIn(_)
RECURSIVE RefsUpTo(_, _)

RefsUpTo(sig, i) ==
    IF i = 0 THEN {}
    ELSE LET typ == TypeAt(sig, i)
         IN  (CASE typ.tag = "Container" -> {typ.id}
                [] typ.tag = "Verbatim" -> RefsIn(typ.sig)
                [] OTHER -> {})
             \cup RefsUpTo(sig, i - 1)

RefsIn(sig) == RefsUpTo(sig, Len(sig.items))

\* C17: acyclic, closed reference graph during collection.  In every state
\* reachable during collection, every Container(c) occurring in the signature
\* of entry id has c < id and c is a key of id_to_signature.
C17_AcyclicClosed ==
    pc = "collect" =>
        \A id \in DOMAIN its :
            \A c \in RefsIn(its[id].signature) :
                c < id /\ c \in DOMAIN its

\* While collecting, a chain of references two deep: an entry refers to an
\* entry that refers to a third.
C17_Witness ==
    /\ pc = "collect"
    /\ \E id \in DOMAIN its :
          \E c \in RefsIn(its[id].signature) :
              c \in DOMAIN its /\ RefsIn(its[c].signature) # {}

\* An entry that was never seen at top level and has no parent yet.
Orphan(id, entries) ==
    /\ ~entries[id].appears_top_level
    /\ entries[id].parent_count = 0

\* The containers still open hold a reference to id among the children they
\* have read so far.
HeldOpen(id) ==
    \E d \in 1..Len(stack) :
        \E i \in 1..Len(stack[d].children) :
            (IF stack[d].kind = "Struct"
             THEN stack[d].children[i].typ ELSE stack[d].children[i]) = Container(id)

C18_State ==
    pc = "collect" =>
        /\ stack = <<>> => \A id \in DOMAIN its : ~Orphan(id, its)
        /\ \A id \in DOMAIN its : Orphan(id, its) => HeldOpen(id)

\* Closing a container that holds a reference to an entry without a parent
\* registers the container under a new id and gives the entry its parent.
C18_Step ==
    Closing =>
        \A c \in DOMAIN its :
            (Orphan(c, its) /\ \E i \in 1..Len(stack[Len(stack)].children) :
                (IF stack[Len(stack)].kind = "Struct"
                 THEN stack[Len(stack)].children[i].typ
                 ELSE stack[Len(stack)].children[i]) = Container(c))
            => /\ DOMAIN its' = DOMAIN its \cup {signature_registry.next_id}
               /\ signature_registry.next_id \notin DOMAIN its
               /\ signature_registry.next_id \in ParentsOf(c, its')
               /\ its'[c].parent_count >= 1

\* C18: no orphan entries.  After each top-level value has been fully
\* reduced, every entry has appears_top_level or parent_count >= 1; whenever
\* a nested container is newly registered, its enclosing container is also
\* registered as a new entry.
C18_NoOrphans == [](C18_State) /\ [][C18_Step]_vars

\* Between two top-level values, with min_size above 0, an entry that was
\* never seen at top level and has a parent.
C18_Witness ==
    /\ pc = "collect"
    /\ stack = <<>>
    /\ min_size >= 1
    /\ \E id \in DOMAIN its :
          ~its[id].appears_top_level /\ its[id].parent_count >= 1

\* The Verbatim wrappers that are direct children of sig.
VerbatimChildren(sig) ==
    {TypeAt(sig, i) : i \in {j \in 1..Len(sig.items) : TypeAt(sig, j).tag = "Verbatim"}}

\* C19: during collection with a fixed min_size, every Verbatim(shape)
\* produced has size(shape) < min_size and contains no Container(id) at any
\* depth, and every registered entry's signature has size >= min_size.
C19_VerbatimBelowThreshold ==
    /\ \A x \in log :
          x.out.tag = "Verbatim" =>
              /\ RefsIn(x.out.sig) = {}
              /\ size(x.out.sig, New) < min_size
              /\ Positions(x.shape) < min_size
    /\ pc = "collect" =>
          \A id \in DOMAIN its :
              /\ size(its[id].signature, signature_registry) >= min_size
              /\ \A v \in VerbatimChildren(its[id].signature) :
                    /\ RefsIn(v.sig) = {}
                    /\ size(v.sig, New) < min_size
                    /\ \E x \in log : x.out = v

\* With min_size 2, a registered container one of whose children is a
\* non-empty container kept inline.
C19_Witness ==
    /\ pc = "collect"
    /\ min_size = 2
    /\ \E id \in DOMAIN its :
          \E v \in VerbatimChildren(its[id].signature) : v.sig.items # <<>>

\* C20: index consistency during collection.  In every state reachable
\* during collection, signature_to_id and id_to_signature are mutually
\* inverse, both maps have exactly next_id entries, and the ids in use are
\* 0 .. next_id - 1.
C20_IndexConsistency ==
    pc = "collect" =>
        LET sti == signature_registry.signature_to_id
            n == signature_registry.next_id
        IN  /\ \A sig \in DOMAIN sti :
                  sti[sig] \in DOMAIN its /\ its[sti[sig]].signature = sig
            /\ \A id \in DOMAIN its :
                  its[id].signature \in DOMAIN sti /\ sti[its[id].signature] = id
            /\ Cardinality(DOMAIN its) = n
            /\ Cardinality(DOMAIN sti) = n
            /\ DOMAIN its = 0..(n - 1)
            /\ Range(sti) = 0..(n - 1)

\* While collecting, two ids in use and one signature met a second time.
C20_Witness ==
    /\ pc = "collect"
    /\ signature_registry.next_id = 2
    /\ DOMAIN signature_registry.signature_to_id # {}
    /\ \E id \in DOMAIN its : its[id].count >= 2

====
